---- MODULE Spec2Model ----
(***************************************************************************)
(* The HTTP gateway of src/mcp_server_bigquery/http_server.py as a state   *)
(* machine: module-level configuration, the process-wide db handle, the    *)
(* cached OpenAPI schema, the startup event and the request handlers.      *)
(*                                                                         *)
(* Python values: None is <<>> and a present value x is <<x>>.  A string   *)
(* the code takes apart or builds (the BIGQUERY_DATASETS value, a table    *)
(* name, str(e)) is a sequence of pieces; a piece is a comma, a blank, a   *)
(* dot or a run of other characters.                                       *)
(***************************************************************************)
EXTENDS Integers, Sequences, FiniteSets, TLC

VARIABLES environ, framework, API_KEY, OPENAPI_SERVERS, openapi_schema,
          db, phase, constructed, reqs

vars == <<environ, framework, API_KEY, OPENAPI_SERVERS, openapi_schema,
          db, phase, constructed, reqs>>

----------------------------------------------------------------------------
(* Bounds *)

NumClients == 2
RecursionLimit == 3
MaxRows == 2

----------------------------------------------------------------------------
(* Python values *)

None == <<>>
Some(x) == <<x>>
Range(s) == {s[i] : i \in 1..Len(s)}

Raise(e) == [raised |-> TRUE, exc |-> e]
Return(v) == [raised |-> FALSE, value |-> v]

HTTPException(status_code, detail) ==
    [type |-> "HTTPException", status_code |-> status_code, detail |-> detail]
ValueError(msg) == [type |-> "ValueError", msg |-> msg]
EngineError(msg) == [type |-> "Exception", msg |-> msg]

\* str(e): the message of an ordinary exception, "<status>: <detail>" for an
\* HTTPException
StrExc(e) ==
    IF e.type = "HTTPException"
    THEN <<ToString(e.status_code), ": ", e.detail>>
    ELSE e.msg

\* os.environ.get(name, default)
EnvironGet(v, default) == IF v = None THEN default ELSE v[1]

\* "if not x" for an Optional[str]: None and "" are both false
Falsy(v) == v = None \/ v = Some("")

----------------------------------------------------------------------------
(* Strings as sequences of pieces *)

Comma == ","
Blank == " "
Dot == "."

RECURSIVE Split(_, _)
\* s.split(sep): the segments between the separators, empty ones kept
Split(s, sep) ==
    IF \A i \in 1..Len(s) : s[i] /= sep
    THEN <<s>>
    ELSE LET k == CHOOSE i \in 1..Len(s) :
                     s[i] = sep /\ \A j \in 1..(i - 1) : s[j] /= sep
         IN <<SubSeq(s, 1, k - 1)>> \o Split(SubSeq(s, k + 1, Len(s)), sep)

RECURSIVE LStrip(_)
LStrip(s) == IF s /= <<>> /\ Head(s) = Blank THEN LStrip(Tail(s)) ELSE s

RECURSIVE RStrip(_)
RStrip(s) ==
    IF s /= <<>> /\ s[Len(s)] = Blank THEN RStrip(SubSeq(s, 1, Len(s) - 1)) ELSE s

\* d.strip()
Strip(s) == RStrip(LStrip(s))

\* [d.strip() for d in parts if d.strip()]
RECURSIVE StripNonEmpty(_)
StripNonEmpty(parts) ==
    IF parts = <<>> THEN <<>>
    ELSE LET d == Strip(Head(parts))
         IN (IF d /= <<>> THEN <<d>> ELSE <<>>) \o StripNonEmpty(Tail(parts))

\* a faulty variant: the segments are not stripped
ParseDatasetsFilter_unstripped(env) ==
    IF env.BIGQUERY_DATASETS = None
    THEN <<>>
    ELSE SelectSeq(Split(EnvironGet(env.BIGQUERY_DATASETS, <<>>), Comma),
                   LAMBDA d : d /= <<>>)

\* lines 127-130 of startup_event
ParseDatasetsFilter(env) ==
    IF env.BIGQUERY_DATASETS = None
    THEN <<>>
    ELSE StripNonEmpty(Split(EnvironGet(env.BIGQUERY_DATASETS, <<>>), Comma))

----------------------------------------------------------------------------
(* The process environment *)

DefaultApiKey == "your-secret-api-key"

Url1 == [url |-> "https://a.example"]
Url2 == [url |-> "https://b.example"]

\* the text of OPENAPI_SERVERS, as json.loads sees it
JsonTexts ==
    { [valid |-> FALSE, value |-> <<>>],
      [valid |-> TRUE, value |-> <<>>],
      [valid |-> TRUE, value |-> <<Url1, Url2>>] }

DatasetsTexts ==
    { <<>>,
      <<Comma>>,
      <<"sales", Comma, "ops">>,
      <<Blank, "sales", Blank, Comma, Blank, "ops">>,
      <<"ops", Comma, Comma, "sales">>,
      <<"hr", Blank>>,
      <<"sales", Blank, "ops">> }

Optional(S) == {None} \cup {Some(x) : x \in S}

Environments ==
    [ MY_API_KEY : Optional({"s3cret"}),
      OPENAPI_SERVERS : Optional(JsonTexts),
      BIGQUERY_PROJECT : Optional({"", "proj"}),
      BIGQUERY_LOCATION : Optional({"", "US"}),
      BIGQUERY_KEY_FILE : Optional({"key.json"}),
      BIGQUERY_DATASETS : Optional(DatasetsTexts) ]

\* the deployments of the concurrent specification
FewEnvironments ==
    { e \in Environments :
        /\ e.MY_API_KEY = None
        /\ e.OPENAPI_SERVERS = Some([valid |-> TRUE, value |-> <<Url1, Url2>>])
        /\ e.BIGQUERY_PROJECT = Some("proj")
        /\ e.BIGQUERY_LOCATION \in {None, Some("US")}
        /\ e.BIGQUERY_KEY_FILE = None
        /\ e.BIGQUERY_DATASETS = Some(<<"sales", Comma, "ops">>) }

\* json.loads
JsonLoads(text) ==
    IF text.valid THEN Return(text.value) ELSE Raise([type |-> "JSONDecodeError", msg |-> <<"bad json">>])

\* lines 30-37
LoadOpenapiServers(env) ==
    IF env.OPENAPI_SERVERS /= None
    THEN LET r == JsonLoads(EnvironGet(env.OPENAPI_SERVERS, [valid |-> TRUE, value |-> <<>>]))
         IN IF r.raised THEN <<>> ELSE r.value
    ELSE <<>>

\* line 27
LoadApiKey(env) == EnvironGet(env.MY_API_KEY, DefaultApiKey)

\* HTTPBearer answers a request without credentials with 403 in the framework
\* releases before the status was changed, and with 401 after
Frameworks == { [not_authenticated |-> 403], [not_authenticated |-> 401] }

----------------------------------------------------------------------------
(* The QueryEngine: BigQueryDatabase of .server, an external collaborator *)

AccessibleTables ==
    << <<"sales", Dot, "orders">>, <<"hr", Dot, "employees">>, <<"ops", Dot, "jobs">> >>

\* the dataset component of "dataset.table"
DatasetOf(t) == Split(t, Dot)[1]

BigQueryDatabase(project, location, key_file, datasets_filter) ==
    [ project |-> project, location |-> location, key_file |-> key_file,
      datasets_filter |-> datasets_filter ]

FilterTables(tables, datasets_filter) ==
    IF datasets_filter = <<>>
    THEN tables
    ELSE SelectSeq(tables, LAMBDA t : DatasetOf(t) \in Range(datasets_filter))

Messages == { <<"Syntax error">>, <<"Not found: Table">> }

Row1 == [n |-> 1]
Row2 == [n |-> 2]
RowSeqs == UNION { [1..k -> {Row1, Row2}] : k \in 0..MaxRows }

Queries == {"SELECT n", "SELEKT"}
TableNames == {"sales.orders", "nope"}

Schema1 == << [name |-> "id", type |-> "INT64"], [name |-> "ts", type |-> "TIMESTAMP"] >>

Failures == { Raise(EngineError(m)) : m \in Messages }

\* what one call of the engine may answer
EngineExecuteQuery(handle, query) ==
    (IF query = "SELECT n" THEN {Return(rows) : rows \in RowSeqs} ELSE {}) \cup Failures

EngineListTables(handle) ==
    {Return(FilterTables(AccessibleTables, handle.datasets_filter))} \cup Failures

EngineDescribeTable(handle, table_name) ==
    (IF table_name = "sales.orders" THEN {Return(Schema1)} ELSE {}) \cup Failures

\* no engine call is made
NoCall == Return(<<>>)

----------------------------------------------------------------------------
(* Response models and the framework's responses *)

HealthResponse(healthy) ==
    [ healthy |-> healthy, version |-> "1.0.0",
      service |-> "BigQuery API for ChatGPT Connector" ]

QueryResponse(success, data, row_count, error) ==
    [ success |-> success, data |-> data, row_count |-> row_count, error |-> error ]

TablesResponse(success, tables, count, error) ==
    [ success |-> success, tables |-> tables, count |-> count, error |-> error ]

TableSchemaResponse(success, ddl, error) ==
    [ success |-> success, ddl |-> ddl, error |-> error ]

\* a handler's return value is sent with status 200
Ok(body) == [status |-> 200, body |-> body]

\* an HTTPException that leaves a handler or a dependency
HttpError(e) == [status |-> e.status_code, body |-> [detail |-> e.detail]]

\* any other exception that leaves a handler
InternalServerError == [status |-> 500, body |-> [detail |-> "Internal Server Error"]]

NoResp == [status |-> 0, body |-> [detail |-> ""]]

----------------------------------------------------------------------------
(* custom_openapi, installed as app.openapi *)

RECURSIVE custom_openapi(_, _)
\* schema: app.openapi_schema; depth: frames on the interpreter stack.
\* The call app.openapi() of line 95 is a call of custom_openapi itself,
\* since line 106 has replaced the attribute.
custom_openapi(schema, depth) ==
    IF schema /= None
    THEN [raised |-> FALSE, value |-> schema[1], schema |-> schema]
    ELSE IF depth >= RecursionLimit
    THEN [raised |-> TRUE, exc |-> [type |-> "RecursionError", msg |-> <<"maximum recursion depth exceeded">>],
          schema |-> schema]
    ELSE LET inner == custom_openapi(schema, depth + 1)
         IN IF inner.raised
            THEN inner
            ELSE LET built == IF OPENAPI_SERVERS /= <<>>
                              THEN [inner.value EXCEPT !.servers = Some(OPENAPI_SERVERS)]
                              ELSE inner.value
                 IN [raised |-> FALSE, value |-> built, schema |-> Some(built)]

----------------------------------------------------------------------------
(* AuthGuard *)

\* security = HTTPBearer(): the credentials of the Authorization header
HTTPBearer(authorization) ==
    IF authorization = None
    THEN Raise(HTTPException(framework.not_authenticated, "Not authenticated"))
    ELSE Return(authorization[1])

verify_token(credentials) ==
    IF credentials /= API_KEY
    THEN Raise(HTTPException(401, "Invalid API key"))
    ELSE Return(credentials)

\* Depends(verify_token) with Security(security)
Authenticate(authorization) ==
    LET c == HTTPBearer(authorization)
    IN IF c.raised THEN c ELSE verify_token(c.value)

----------------------------------------------------------------------------
(* Handlers: the response and the engine calls made, given the engine's answer *)

\* a faulty variant: health reports whether the engine is there
health_of_engine == Ok(HealthResponse(db /= None))

health == Ok(HealthResponse(TRUE))

Called(op, arg, out) == <<[op |-> op, arg |-> arg, outcome |-> out]>>

NotInitialized == Raise(HTTPException(503, "Database not initialized"))

\* a faulty variant: the rows are counted from zero
execute_query_try_miscounted(query, out) ==
    IF db = None THEN NotInitialized
    ELSE IF out.raised THEN out
    ELSE Return(QueryResponse(TRUE, out.value, Len(out.value) - 1, None))

\* lines 156-164
execute_query_try(query, out) ==
    IF db = None THEN NotInitialized
    ELSE IF out.raised THEN out
    ELSE Return(QueryResponse(TRUE, out.value, Len(out.value), None))

\* a faulty variant: the message is replaced by a fixed text
execute_query_except_generic(e) ==
    QueryResponse(FALSE, <<>>, 0, Some(<<"Internal error">>))

\* lines 165-167
execute_query_except(e) == QueryResponse(FALSE, <<>>, 0, Some(StrExc(e)))

execute_query(query, out) ==
    LET r == execute_query_try(query, out)
    IN [ resp |-> Ok(IF r.raised THEN execute_query_except(r.exc) ELSE r.value),
         calls |-> IF db = None THEN <<>> ELSE Called("execute_query", query, out) ]

\* lines 178-186
list_tables_try(out) ==
    IF db = None THEN NotInitialized
    ELSE IF out.raised THEN out
    ELSE Return(TablesResponse(TRUE, out.value, Len(out.value), None))

\* a faulty variant: the error is left out of the envelope
list_tables_except_silent(e) == TablesResponse(FALSE, <<>>, 0, None)

\* lines 187-189
list_tables_except(e) == TablesResponse(FALSE, <<>>, 0, Some(StrExc(e)))

list_tables(out) ==
    LET r == list_tables_try(out)
    IN [ resp |-> Ok(IF r.raised THEN list_tables_except(r.exc) ELSE r.value),
         calls |-> IF db = None THEN <<>> ELSE Called("list_tables", "", out) ]

\* lines 204-210
describe_table_try(table_name, out) ==
    IF db = None THEN NotInitialized
    ELSE IF out.raised THEN out
    ELSE Return(TableSchemaResponse(TRUE, out.value, None))

\* lines 211-213
describe_table_except(e) == TableSchemaResponse(FALSE, <<>>, Some(StrExc(e)))

describe_table(table_name, out) ==
    LET r == describe_table_try(table_name, out)
    IN [ resp |-> Ok(IF r.raised THEN describe_table_except(r.exc) ELSE r.value),
         calls |-> IF db = None THEN <<>> ELSE Called("describe_table", table_name, out) ]

\* a faulty variant: only the project is required
startup_event_project_only(env) ==
    IF Falsy(env.BIGQUERY_PROJECT)
    THEN Raise(ValueError(<<"BIGQUERY_PROJECT is required">>))
    ELSE Return(BigQueryDatabase(env.BIGQUERY_PROJECT[1],
                                 EnvironGet(env.BIGQUERY_LOCATION, ""),
                                 env.BIGQUERY_KEY_FILE, ParseDatasetsFilter(env)))

\* lines 123-137
startup_event(env) ==
    LET project == env.BIGQUERY_PROJECT
        location == env.BIGQUERY_LOCATION
        key_file == env.BIGQUERY_KEY_FILE
        datasets_filter == ParseDatasetsFilter(env)
    IN IF Falsy(project) \/ Falsy(location)
       THEN Raise(ValueError(<<"BIGQUERY_PROJECT and BIGQUERY_LOCATION environment variables are required">>))
       ELSE Return(BigQueryDatabase(project[1], location[1], key_file, datasets_filter))

----------------------------------------------------------------------------
(* State *)

Clients == DOMAIN reqs

Protected == {"/query", "/tables", "/table/describe"}
HealthPaths == {"/", "/health"}
OpenapiPath == "/openapi.json"

Authorizations == {None, Some("wrong"), Some(DefaultApiKey), Some("s3cret")}

Args(endpoint) ==
    IF endpoint = "/query" THEN Queries
    ELSE IF endpoint = "/table/describe" THEN TableNames
    ELSE {""}

Idle ==
    [ pc |-> "idle", endpoint |-> "", authorization |-> None, arg |-> "",
      resp |-> NoResp, calls |-> <<>> ]

Pending(endpoint, authorization, arg) ==
    [ pc |-> "authed", endpoint |-> endpoint, authorization |-> authorization,
      arg |-> arg, resp |-> NoResp, calls |-> <<>> ]

Done(endpoint, authorization, arg, resp, calls) ==
    [ pc |-> "done", endpoint |-> endpoint, authorization |-> authorization,
      arg |-> arg, resp |-> resp, calls |-> calls ]

InitProcess(envs, n) ==
    /\ environ \in envs
    /\ framework \in Frameworks
    /\ API_KEY = LoadApiKey(environ)
    /\ OPENAPI_SERVERS = LoadOpenapiServers(environ)
    /\ openapi_schema = None
    /\ db = None
    /\ phase = "boot"
    /\ constructed = 0
    /\ reqs = [c \in 1..n |-> Idle]

Init == InitProcess(Environments, 1)

InitConcurrent == InitProcess(FewEnvironments, NumClients)

----------------------------------------------------------------------------
(* Actions *)

\* @app.on_event("startup"): run once, before the server is ready
Startup ==
    /\ phase = "boot"
    /\ LET r == startup_event(environ)
       IN IF r.raised
          THEN /\ phase' = "failed"
               /\ UNCHANGED <<db, constructed>>
          ELSE /\ db' = Some(r.value)
               /\ constructed' = constructed + 1
               /\ phase' = "ready"
    /\ UNCHANGED <<environ, framework, API_KEY, OPENAPI_SERVERS, openapi_schema, reqs>>

Shared == <<environ, framework, API_KEY, OPENAPI_SERVERS, db, phase, constructed>>

\* GET / and GET /health
Health(c) ==
    /\ reqs[c].pc = "idle"
    /\ \E endpoint \in HealthPaths, authorization \in Authorizations :
          reqs' = [reqs EXCEPT ![c] = Done(endpoint, authorization, "", health, <<>>)]
    /\ UNCHANGED <<Shared, openapi_schema>>

\* GET /openapi.json
Openapi(c) ==
    /\ reqs[c].pc = "idle"
    /\ \E authorization \in Authorizations :
          LET r == custom_openapi(openapi_schema, 0)
          IN /\ openapi_schema' = r.schema
             /\ reqs' = [reqs EXCEPT ![c] =
                   Done(OpenapiPath, authorization, "",
                        IF r.raised THEN InternalServerError ELSE Ok(r.value), <<>>)]
    /\ UNCHANGED Shared

\* a request to a protected endpoint arrives and its dependency runs
Authorize(c) ==
    /\ reqs[c].pc = "idle"
    /\ \E endpoint \in Protected, authorization \in Authorizations :
       \E arg \in Args(endpoint) :
          LET a == Authenticate(authorization)
          IN reqs' = [reqs EXCEPT ![c] =
                 IF a.raised
                 THEN Done(endpoint, authorization, arg, HttpError(a.exc), <<>>)
                 ELSE Pending(endpoint, authorization, arg)]
    /\ UNCHANGED <<Shared, openapi_schema>>

Finish(c, h) ==
    reqs' = [reqs EXCEPT ![c] =
                Done(reqs[c].endpoint, reqs[c].authorization, reqs[c].arg, h.resp, h.calls)]

\* a faulty variant: the handler drops the handle when the engine fails
ExecuteQuery_dropping_handle(c) ==
    /\ reqs[c].pc = "authed"
    /\ reqs[c].endpoint = "/query"
    /\ \E out \in (IF db = None THEN {NoCall} ELSE EngineExecuteQuery(db[1], reqs[c].arg)) :
          /\ Finish(c, execute_query(reqs[c].arg, out))
          /\ db' = IF out.raised THEN None ELSE db
    /\ UNCHANGED <<environ, framework, API_KEY, OPENAPI_SERVERS, phase, constructed,
                   openapi_schema>>

\* POST /query
ExecuteQuery(c) ==
    /\ reqs[c].pc = "authed"
    /\ reqs[c].endpoint = "/query"
    /\ \E out \in (IF db = None THEN {NoCall} ELSE EngineExecuteQuery(db[1], reqs[c].arg)) :
          Finish(c, execute_query(reqs[c].arg, out))
    /\ UNCHANGED <<Shared, openapi_schema>>

\* GET /tables
ListTables(c) ==
    /\ reqs[c].pc = "authed"
    /\ reqs[c].endpoint = "/tables"
    /\ \E out \in (IF db = None THEN {NoCall} ELSE EngineListTables(db[1])) :
          Finish(c, list_tables(out))
    /\ UNCHANGED <<Shared, openapi_schema>>

\* POST /table/describe
DescribeTable(c) ==
    /\ reqs[c].pc = "authed"
    /\ reqs[c].endpoint = "/table/describe"
    /\ \E out \in (IF db = None THEN {NoCall} ELSE EngineDescribeTable(db[1], reqs[c].arg)) :
          Finish(c, describe_table(reqs[c].arg, out))
    /\ UNCHANGED <<Shared, openapi_schema>>

\* the response is sent and the connection serves the next request
Deliver(c) ==
    /\ reqs[c].pc = "done"
    /\ reqs' = [reqs EXCEPT ![c] = Idle]
    /\ UNCHANGED <<Shared, openapi_schema>>

Next ==
    \/ Startup
    \/ \E c \in Clients : Health(c)
    \/ \E c \in Clients : Openapi(c)
    \/ \E c \in Clients : Authorize(c)
    \/ \E c \in Clients : ExecuteQuery(c)
    \/ \E c \in Clients : ListTables(c)
    \/ \E c \in Clients : DescribeTable(c)
    \/ \E c \in Clients : Deliver(c)

Spec == Init /\ [][Next]_vars

SpecConcurrent == InitConcurrent /\ [][Next]_vars

----------------------------------------------------------------------------
(* Properties *)

ValidToken(r) == r.authorization = Some(API_KEY)
EngineFailed(r) == r.calls /= <<>> /\ r.calls[1].outcome.raised
EngineAnswered(r) == r.calls /= <<>> /\ ~r.calls[1].outcome.raised
SalesOrders == <<"sales", Dot, "orders">>
OpsJobs == <<"ops", Dot, "jobs">>

\* C1: on every protected endpoint, whether or not the engine is initialised, a
\* request whose bearer token is missing or is not the configured secret is
\* answered 401 and makes no engine call.
C1_UnauthorizedIs401 ==
    \A c \in Clients :
        LET r == reqs[c]
        IN (r.endpoint \in Protected /\ ~ValidToken(r)) =>
              /\ r.pc = "done"
              /\ r.resp.status = 401
              /\ r.calls = <<>>

\* The part of C1 that every framework release satisfies: such a request is
\* rejected before the handler (401 for a wrong token, 401 or 403 for a missing
\* one) and makes no engine call.
C1_UnauthorizedNeverReachesEngine ==
    \A c \in Clients :
        LET r == reqs[c]
        IN (r.endpoint \in Protected /\ ~ValidToken(r)) =>
              /\ r.pc = "done"
              /\ r.calls = <<>>
              /\ r.resp.status = IF r.authorization = None
                                 THEN framework.not_authenticated
                                 ELSE 401
              /\ r.resp.status \in {401, 403}

\* C2: while the db handle is unset, a request with a valid token to a protected
\* endpoint is answered 503 "Database not initialized", not 401 and not a 200
\* envelope.
C2_NotInitializedIs503 ==
    \A c \in Clients :
        LET r == reqs[c]
        IN (r.pc = "done" /\ r.endpoint \in Protected /\ ValidToken(r) /\ db = None) =>
              /\ r.resp.status = 503
              /\ r.resp.body = [detail |-> "Database not initialized"]

EmptyEnvelope(endpoint, M) ==
    CASE endpoint = "/query" ->
            [success |-> FALSE, data |-> <<>>, row_count |-> 0, error |-> <<M>>]
      [] endpoint = "/tables" ->
            [success |-> FALSE, tables |-> <<>>, count |-> 0, error |-> <<M>>]
      [] endpoint = "/table/describe" ->
            [success |-> FALSE, ddl |-> <<>>, error |-> <<M>>]

\* C3: with a valid token and an initialised engine, an engine call that fails
\* with message M is answered 200 with success false, the empty payload of the
\* endpoint and error equal to M.
C3_EngineFailureFolded ==
    \A c \in Clients :
        LET r == reqs[c]
        IN (r.pc = "done" /\ r.endpoint \in Protected /\ ValidToken(r) /\ EngineFailed(r)) =>
              /\ r.resp.status = 200
              /\ r.resp.body = EmptyEnvelope(r.endpoint, r.calls[1].outcome.exc.msg)

C3_Witness ==
    \E c \in Clients :
        /\ reqs[c].pc = "done"
        /\ reqs[c].endpoint = "/query"
        /\ ValidToken(reqs[c])
        /\ EngineFailed(reqs[c])
        /\ reqs[c].calls[1].outcome.exc.msg = <<"Syntax error">>
        /\ reqs[c].resp.body.error = << <<"Syntax error">> >>

\* C4: POST /query with a valid token and an engine that returns N rows is
\* answered success true, data the same rows in the same order, row_count = N =
\* len(data), error absent.
C4_RowsReturned ==
    \A c \in Clients :
        LET r == reqs[c]
        IN (r.pc = "done" /\ r.endpoint = "/query" /\ ValidToken(r) /\ EngineAnswered(r)) =>
              LET rows == r.calls[1].outcome.value
              IN /\ r.resp.status = 200
                 /\ r.resp.body.success = TRUE
                 /\ r.resp.body.data = rows
                 /\ r.resp.body.row_count = Len(rows)
                 /\ r.resp.body.row_count = Len(r.resp.body.data)
                 /\ r.resp.body.error = None

C4_Witness ==
    \E c \in Clients :
        /\ reqs[c].pc = "done"
        /\ reqs[c].endpoint = "/query"
        /\ EngineAnswered(reqs[c])
        /\ reqs[c].resp.body.data = <<Row2, Row1>>
        /\ reqs[c].resp.body.row_count = 2

\* the dataset names a BIGQUERY_DATASETS value configures
ConfiguredDatasets(v) ==
    CASE v = None -> <<>>
      [] v = Some(<<>>) -> <<>>
      [] v = Some(<<Comma>>) -> <<>>
      [] v = Some(<<"sales", Comma, "ops">>) -> << <<"sales">>, <<"ops">> >>
      [] v = Some(<<Blank, "sales", Blank, Comma, Blank, "ops">>) -> << <<"sales">>, <<"ops">> >>
      [] v = Some(<<"ops", Comma, Comma, "sales">>) -> << <<"ops">>, <<"sales">> >>
      [] v = Some(<<"hr", Blank>>) -> << <<"hr">> >>
      [] v = Some(<<"sales", Blank, "ops">>) -> << <<"sales", Blank, "ops">> >>

C6_EnvelopeInvariant ==
    \A c \in Clients :
        LET r == reqs[c]
        IN (r.pc = "done" /\ r.endpoint \in Protected /\ ValidToken(r)) =>
              LET b == r.resp.body
              IN /\ r.resp.status = 200
                 /\ (b.error /= None) <=> (b.success = FALSE)
                 /\ (b.success /\ r.endpoint = "/query") => b.row_count = Len(b.data)
                 /\ (b.success /\ r.endpoint = "/tables") => b.count = Len(b.tables)

C6_Witness ==
    \E c \in Clients :
        /\ reqs[c].pc = "done"
        /\ reqs[c].endpoint = "/tables"
        /\ ValidToken(reqs[c])
        /\ db = None
        /\ reqs[c].resp.body.success = FALSE
        /\ reqs[c].resp.body.error /= None

\* C7: GET /health and GET / need no token, never fail and answer healthy true
\* with version "1.0.0" before startup, after a failed startup and after a
\* successful one.
C7_HealthAlways ==
    \A c \in Clients :
        LET r == reqs[c]
        IN /\ r.pc = "idle" => ENABLED Health(c)
           /\ (r.pc = "done" /\ r.endpoint \in HealthPaths) =>
                 /\ r.resp.status = 200
                 /\ r.resp.body.healthy = TRUE
                 /\ r.resp.body.version = "1.0.0"

C7_Witness ==
    \E c \in Clients :
        /\ reqs[c].pc = "done"
        /\ reqs[c].endpoint = "/health"
        /\ reqs[c].authorization = None
        /\ phase = "failed"
        /\ db = None
        /\ reqs[c].resp.body.healthy = TRUE

\* C8: every GET /openapi.json returns an API description, built on the first
\* request and kept for the later ones, whose server list is the configured
\* URL list when there is one and is absent when there is none.
C8_DiscoveryDescribes ==
    \A c \in Clients :
        LET r == reqs[c]
        IN (r.pc = "done" /\ r.endpoint = OpenapiPath) =>
              /\ r.resp.status = 200
              /\ openapi_schema = Some(r.resp.body)
              /\ OPENAPI_SERVERS /= <<>> => r.resp.body.servers = Some(OPENAPI_SERVERS)
              /\ OPENAPI_SERVERS = <<>> => r.resp.body.servers = None

Absent(v) == v = None \/ v = Some("")

StartupStep ==
    IF Absent(environ.BIGQUERY_PROJECT) \/ Absent(environ.BIGQUERY_LOCATION)
    THEN /\ phase' = "failed"
         /\ db' = None
         /\ constructed' = 0
    ELSE /\ phase' = "ready"
         /\ constructed' = 1
         /\ db' = Some([ project |-> environ.BIGQUERY_PROJECT[1],
                         location |-> environ.BIGQUERY_LOCATION[1],
                         key_file |-> environ.BIGQUERY_KEY_FILE,
                         datasets_filter |-> ConfiguredDatasets(environ.BIGQUERY_DATASETS) ])

\* C9: startup with project or location absent (unset or empty) raises, builds
\* no engine and leaves the handle unset; with both present it builds the
\* engine once from project, location, key file and dataset filter and
\* publishes it; the handle is never assigned again.
C9_StartupOnce ==
    [][ /\ phase = "boot" /\ phase' /= "boot" => StartupStep
        /\ phase /= "boot" => phase' = phase /\ constructed' = constructed
        /\ db /= None => db' = db
        /\ (db' = None) <=> (phase' /= "ready")
        /\ constructed' <= 1 ]_vars

C9_Witness ==
    /\ phase = "ready"
    /\ constructed = 1
    /\ environ.BIGQUERY_DATASETS = Some(<<"ops", Comma, Comma, "sales">>)
    /\ db = Some([ project |-> "proj", location |-> "US", key_file |-> Some("key.json"),
                   datasets_filter |-> << <<"ops">>, <<"sales">> >> ])
    /\ \E c \in Clients : reqs[c].pc = "done" /\ EngineAnswered(reqs[c])

\* C10: under any interleaving of requests, a step of request handling changes
\* the state of one request only and leaves the db handle and the configuration
\* as they are; requests that are alike and get the same engine answers get
\* the same response.
C10_HandlersShareNothing ==
    /\ [][ reqs' /= reqs =>
              /\ db' = db
              /\ <<environ, framework, API_KEY, OPENAPI_SERVERS>>' =
                    <<environ, framework, API_KEY, OPENAPI_SERVERS>>
              /\ Cardinality({c \in Clients : reqs'[c] /= reqs[c]}) = 1 ]_vars
    /\ [](\A c1, c2 \in Clients :
            ( /\ reqs[c1].pc = "done" /\ reqs[c2].pc = "done"
              /\ reqs[c1].endpoint = reqs[c2].endpoint
              /\ reqs[c1].authorization = reqs[c2].authorization
              /\ reqs[c1].arg = reqs[c2].arg
              /\ reqs[c1].calls = reqs[c2].calls )
            => reqs[c1].resp = reqs[c2].resp)

C10_Witness ==
    \E c1, c2 \in Clients :
        /\ c1 /= c2
        /\ reqs[c1].pc = "authed" /\ reqs[c1].endpoint = "/query"
        /\ reqs[c2].pc = "done" /\ reqs[c2].endpoint = "/tables"
        /\ EngineAnswered(reqs[c2])

====
